---- MODULE Spec2Model ----
(***************************************************************************)
(* Model of src/index.js: the price service that polls a pool price once   *)
(* per second, keeps a rolling raw history, builds OHLC candle series for  *)
(* eight timeframes, persists a snapshot and answers range queries.        *)
(*                                                                         *)
(* Time.  The source measures time in milliseconds; TLC's integers are 32  *)
(* bits wide and the ten-year retention window (315,360,000,000 ms) does   *)
(* not fit.  Every duration of the source is a whole multiple of 1000 ms,  *)
(* so the model measures time in seconds: every clock reading is a whole   *)
(* second and every duration of the source is divided by 1000.             *)
(*                                                                         *)
(* Prices are small positive integers standing for the floating-point      *)
(* price; only their order and equality matter to the code modelled here.  *)
(***************************************************************************)
EXTENDS Integers, Sequences, FiniteSets, TLC

VARIABLES
    clock,        \* the wall clock, Date.now(), in seconds
    phase,        \* "boot" before init() has finished, "running" after;
                  \* "loaded", "pushed", "aggregated" inside a synchronous
                  \* section taken statement by statement
    latestPrice,  \* priceData.latestPrice (Null until the first tick)
    lastUpdated,  \* priceData.lastUpdated (Null until the first tick)
    history,      \* priceData.history: sequence of [price, timestamp]
    ohlc,         \* priceData.ohlc: timeframe -> sequence of candles
    disk,         \* ./priceData.json: NoFile, or <<snapshot>>
    writes,       \* snapshot writes started by saveDataToFile, not yet finished
    pending,      \* updatePrice invocations awaiting fetchLatestPrice
    fired,        \* how many times the interval timer has fired (bounded)
    restarts,     \* how many times the process was restarted (bounded)
    ingested,     \* ghost: every tick folded into the current state, never trimmed
    lastOp,       \* the operation that produced this state
    req,          \* the last request handed to a query handler or pure function
    resp          \* its response

vars == <<clock, phase, latestPrice, lastUpdated, history, ohlc, disk, writes,
          pending, fired, restarts, ingested, lastOp, req, resp>>

priceVars == <<latestPrice, lastUpdated, history, ohlc>>

----------------------------------------------------------------------------
(* Bounds of the model.                                                    *)

MaxTicks == 3
MaxPending == 2
MaxRestarts == 1

\* The prices a fetch may return.
Prices == {1, 2}

\* Seconds that may pass between two firings of the timer: the nominal
\* period, one 5m bucket, and exactly the history window (24h + 60s).
Steps == {1, 300, 86460}

\* null, as the value of latestPrice and lastUpdated before the first tick
Null == -1

\* Bounds of the long run that fills a series past the count cap: its
\* first MaxGapTicks firings may come after a long gap, the others follow
\* five minutes apart, up to MaxLongTicks firings.
MaxLongTicks == 103
MaxGapTicks == 2

\* Bounds of the inputs of the backfill runs: the length of the loaded
\* history and of a loaded candle series.
MaxHistLen == 2
MaxSeriesLen == 3

\* Bounds of the inputs of the raw-sample query: the number of stored
\* ticks and the limit.
MaxSamples == 38
MaxLimit == 11

\* Bound of the runs that queries are served on: the timer firings.
MaxQueryTicks == 3

\* Timer firings in the statement-level run (SpecSteps).
MaxStepTicks == 3

\* Successive calls of updateOHLCData on a loaded state (SpecUpdate).
MaxUpdates == 2

\* The data file does not exist (fs.pathExists is false).
NoFile == <<>>

----------------------------------------------------------------------------
(* Configuration tables.                                                   *)

Intervals == {"5m", "15m", "30m", "1h", "12h", "24h", "1w", "1M"}

\* intervals: timeframe -> bucket duration (source: ms; here: seconds)
intervals ==
    [tf \in Intervals |->
        CASE tf = "5m"  -> 5 * 60
          [] tf = "15m" -> 15 * 60
          [] tf = "30m" -> 30 * 60
          [] tf = "1h"  -> 60 * 60
          [] tf = "12h" -> 12 * 60 * 60
          [] tf = "24h" -> 24 * 60 * 60
          [] tf = "1w"  -> 7 * 24 * 60 * 60
          [] tf = "1M"  -> 30 * 24 * 60 * 60]

\* maxCandles: the count cap, the same for every timeframe
maxCandles == 100

\* The age windows of cleanupOldData.
historyWindow == 24 * 60 * 60 + 60
thirtyDays == 30 * 24 * 60 * 60
sevenDays == 7 * 24 * 60 * 60
twoYears == 2 * 365 * 24 * 60 * 60
tenYears == 10 * 365 * 24 * 60 * 60

\* Mutant of SaveDue: the gate is open in every cycle.
SaveDueEveryCycle(now) == TRUE

\* The save gate of updatePrice: now % (60 * 1000) < 1000.
SaveDue(now) == now % 60 < 1

NoRequest == [route |-> "none"]
NoResponse == [status |-> 0]

emptyOhlc == [tf \in Intervals |-> <<>>]

----------------------------------------------------------------------------
(* Pure helpers.                                                           *)

Max(a, b) == IF a >= b THEN a ELSE b
Min(a, b) == IF a <= b THEN a ELSE b

\* Mutant of RoundDown: the candle starts at the tick, not at the bucket.
RoundDownNoFloor(timestamp, ms) == timestamp

\* Math.floor(timestamp / ms) * ms
RoundDown(timestamp, ms) == (timestamp \div ms) * ms

NewCandle(price, roundedTimestamp) ==
    [timestamp |-> roundedTimestamp, open |-> price, high |-> price,
     low |-> price, close |-> price, volume |-> 1]

\* Mutant of FoldIntoCandle: the close is left as it was.
FoldKeepsClose(c, price) ==
    [c EXCEPT !.high = Max(c.high, price),
              !.low = Min(c.low, price),
              !.volume = c.volume + 1]

\* The else branch of updateOHLCData and of backfillHistoricalOHLC.
FoldIntoCandle(c, price) ==
    [c EXCEPT !.high = Max(c.high, price),
              !.low = Min(c.low, price),
              !.close = price,
              !.volume = c.volume + 1]

\* Mutant of ReplaceLast: the candle written is the first of the series.
ReplaceFirst(s, c) == [s EXCEPT ![1] = c]

\* currentOHLC[currentOHLC.length - 1] is updated in place.
ReplaceLast(s, c) == [s EXCEPT ![Len(s)] = c]

\* Array.prototype.slice(-n) for n > 0
SliceLast(s, n) == IF Len(s) > n THEN SubSeq(s, Len(s) - n + 1, Len(s)) ELSE s

\* The new-candle test of updateOHLCData: the last candle's window has elapsed.
IsNewCandle(series, ms, timestamp) ==
    \/ Len(series) = 0
    \/ timestamp >= series[Len(series)].timestamp + ms

\* Mutant of CapSeries: the cap is tested but the slice is not assigned.
CapSeriesNoSlice(series) == series

\* The count cap at the end of each timeframe's update.
CapSeries(series) ==
    IF Len(series) > maxCandles THEN SliceLast(series, maxCandles) ELSE series

\* One timeframe's step of updateOHLCData.
UpdateSeries(series, ms, price, timestamp) ==
    CapSeries(
        IF IsNewCandle(series, ms, timestamp)
        THEN Append(series, NewCandle(price, RoundDown(timestamp, ms)))
        ELSE ReplaceLast(series, FoldIntoCandle(series[Len(series)], price)))

updateOHLCData(o, price, timestamp) ==
    [tf \in Intervals |-> UpdateSeries(o[tf], intervals[tf], price, timestamp)]

\* Mutant of IsNewBackfillCandle: the last candle is never found to match.
IsNewBackfillCandleAlways(series, roundedTimestamp) == TRUE

\* The new-candle test of backfillHistoricalOHLC: the bucket differs.
IsNewBackfillCandle(series, roundedTimestamp) ==
    \/ Len(series) = 0
    \/ series[Len(series)].timestamp # roundedTimestamp

BackfillStep(series, ms, item) ==
    IF IsNewBackfillCandle(series, RoundDown(item.timestamp, ms))
    THEN Append(series, NewCandle(item.price, RoundDown(item.timestamp, ms)))
    ELSE ReplaceLast(series, FoldIntoCandle(series[Len(series)], item.price))

\* priceData.history.forEach(...) over one timeframe, from the series acc.
RECURSIVE BackfillReplay(_, _, _, _)
BackfillReplay(acc, ms, h, i) ==
    IF i > Len(h) THEN acc
    ELSE BackfillReplay(BackfillStep(acc, ms, h[i]), ms, h, i + 1)

\* Mutant of BackfillStart: the existing data is not cleared.
BackfillStartKeeps(series) == series

\* The series the replay starts from: the existing data is cleared.
BackfillStart(series) == <<>>

\* Skip a timeframe that already holds at least two candles.
BackfillSkips(series) == Len(series) >= 2

BackfillSeries(series, ms, h) ==
    IF BackfillSkips(series) THEN series
    ELSE BackfillReplay(BackfillStart(series), ms, h, 1)

backfillHistoricalOHLC(h, o) ==
    IF Len(h) = 0 THEN o
    ELSE [tf \in Intervals |-> BackfillSeries(o[tf], intervals[tf], h)]

KeepSince(s, cutoff) == SelectSeq(s, LAMBDA x : x.timestamp >= cutoff)

\* Mutant of CleanHistory: the filter's result is not assigned back.
CleanHistoryKeepsAll(h, now) == h

\* cleanupOldData: the history trim
CleanHistory(h, now) == KeepSince(h, now - historyWindow)

\* cleanupOldData: the age caps of the 24h, 1h, 1w and 1M series
CleanOhlc(o, now) ==
    [o EXCEPT !["24h"] = KeepSince(o["24h"], now - thirtyDays),
              !["1h"]  = KeepSince(o["1h"], now - sevenDays),
              !["1w"]  = KeepSince(o["1w"], now - twoYears),
              !["1M"]  = KeepSince(o["1M"], now - tenYears)]

\* getIntervalPrices: the window filter and the long-window fallback.  The
\* map to {price, timestamp} copies the two fields a tick has.
IntervalWindow(h, now, minutes) ==
    LET cutoffTime == now - minutes * 60
        filteredData == KeepSince(h, cutoffTime)
    IN  IF Len(filteredData) = 0 /\ minutes >= 10080 THEN h ELSE filteredData

\* Mutant of LastSample: the last point is the next strided one.
LastSampleStrided(filteredData, limit, step) ==
    filteredData[(limit - 1) * step + 1]

\* result.push(filteredData[filteredData.length - 1])
LastSample(filteredData, limit, step) == filteredData[Len(filteredData)]

\* getIntervalPrices: the sampling of more than limit points.
SamplePoints(filteredData, limit) ==
    IF Len(filteredData) > limit
    THEN LET step == Len(filteredData) \div limit
         IN  [i \in 1..(limit - 1) |-> filteredData[(i - 1) * step + 1]]
                 \o <<LastSample(filteredData, limit, step)>>
    ELSE filteredData

getIntervalPrices(h, now, minutes, limit) ==
    SamplePoints(IntervalWindow(h, now, minutes), limit)

\* What fs.writeJson serialises: priceData at the time of the call.  The
\* field ticks is a ghost (not in the file): the ticks folded into it.
Snapshot ==
    [latestPrice |-> latestPrice, lastUpdated |-> lastUpdated,
     history |-> history, ohlc |-> ohlc, ticks |-> ingested]

----------------------------------------------------------------------------
(* The query surface: request parameters, mapInterval, the range filter    *)
(* and the four handlers that take an interval.                            *)

\* A query-string parameter: absent (undefined), or a string held as the
\* sequence of its characters.
Absent == [given |-> FALSE, text |-> <<>>]
Param(chars) == [given |-> TRUE, text |-> chars]

\* if (from_timestamp): undefined and "" are falsy.
Truthy(param) == param.given /\ param.text # <<>>

\* The values a parsed timestamp variable takes: null, a number, NaN.
NullTs == [kind |-> "null", val |-> 0]
NaN == [kind |-> "nan", val |-> 0]
Num(n) == [kind |-> "num", val |-> n]

\* !x for such a value: null, NaN and 0 are falsy.
Falsy(v) == v.kind # "num" \/ v.val = 0

DigitChars == {"0", "1", "2", "3", "4", "5", "6", "7", "8", "9"}

DigitValue(c) ==
    CASE c = "0" -> 0 [] c = "1" -> 1 [] c = "2" -> 2 [] c = "3" -> 3
      [] c = "4" -> 4 [] c = "5" -> 5 [] c = "6" -> 6 [] c = "7" -> 7
      [] c = "8" -> 8 [] c = "9" -> 9

RECURSIVE SkipSpaces(_)
SkipSpaces(t) == IF t # <<>> /\ t[1] = " " THEN SkipSpaces(Tail(t)) ELSE t

\* The value of the longest prefix of decimal digits of t, from acc on.
RECURSIVE DigitsValue(_, _)
DigitsValue(t, acc) ==
    IF t # <<>> /\ t[1] \in DigitChars
    THEN DigitsValue(Tail(t), acc * 10 + DigitValue(t[1]))
    ELSE acc

\* parseInt(string) for strings without a 0x prefix: leading blanks, an
\* optional sign, then the longest run of decimal digits; NaN without one.
parseInt(text) ==
    LET t == SkipSpaces(text)
        signed == t # <<>> /\ t[1] \in {"-", "+"}
        body == IF signed THEN Tail(t) ELSE t
    IN  IF body = <<>> \/ body[1] \notin DigitChars THEN NaN
        ELSE IF signed /\ t[1] = "-" THEN Num(0 - DigitsValue(body, 0))
        ELSE Num(DigitsValue(body, 0))

\* The parse of one timestamp parameter: null when the parameter is falsy.
ParseTimestamp(param) == IF Truthy(param) THEN parseInt(param.text) ELSE NullTs

\* mapInterval's null
NoKey == ""

\* Mutant of mapInterval: "12" is taken for the one-hour alias "1".
mapIntervalConfuses12(interval) ==
    CASE interval \in {"5", "5m"} -> "5m"
      [] interval \in {"15", "15m"} -> "15m"
      [] interval \in {"30", "30m"} -> "30m"
      [] interval \in {"60", "1", "12", "1h", "1hour"} -> "1h"
      [] interval \in {"720", "12h"} -> "12h"
      [] interval \in {"1440", "24", "24h"} -> "24h"
      [] interval \in {"1w", "week"} -> "1w"
      [] interval \in {"1M", "month"} -> "1M"
      [] OTHER -> NoKey

mapInterval(interval) ==
    CASE interval \in {"5", "5m"} -> "5m"
      [] interval \in {"15", "15m"} -> "15m"
      [] interval \in {"30", "30m"} -> "30m"
      [] interval \in {"60", "1", "1h", "1hour"} -> "1h"
      [] interval \in {"720", "12", "12h"} -> "12h"
      [] interval \in {"1440", "24", "24h"} -> "24h"
      [] interval \in {"1w", "week"} -> "1w"
      [] interval \in {"1M", "month"} -> "1M"
      [] OTHER -> NoKey

filterOHLCByTimeRange(ohlcData, fromTimestamp, toTimestamp) ==
    IF Len(ohlcData) = 0 THEN <<>>
    ELSE SelectSeq(ohlcData,
            LAMBDA candle :
                /\ (Falsy(fromTimestamp) \/ candle.timestamp >= fromTimestamp.val)
                /\ (Falsy(toTimestamp) \/ candle.timestamp <= toTimestamp.val))

\* (fromTimestamp || toTimestamp) ? filterOHLCByTimeRange(...) : ohlcData
FilterIfBounded(ohlcData, fromTimestamp, toTimestamp) ==
    IF ~Falsy(fromTimestamp) \/ ~Falsy(toTimestamp)
    THEN filterOHLCByTimeRange(ohlcData, fromTimestamp, toTimestamp)
    ELSE ohlcData

\* The minutes of the legacy fallback; parseInt("5m") is 5, and so on.
LegacyMinutes(intervalKey) ==
    CASE intervalKey = "24h" -> 1440
      [] intervalKey = "1h" -> 60
      [] intervalKey = "12h" -> 720
      [] intervalKey = "1w" -> 10080
      [] intervalKey = "1M" -> 43200
      [] intervalKey = "5m" -> 5
      [] intervalKey = "15m" -> 15
      [] intervalKey = "30m" -> 30

\* The default limit of getIntervalPrices.
DefaultLimit == 10

RECURSIVE SumPrices(_, _)
SumPrices(points, i) ==
    IF i > Len(points) THEN 0 ELSE points[i].price + SumPrices(points, i + 1)

PricesOf(points) == {points[i].price : i \in 1..Len(points)}

\* The simple stats of the legacy response.  avg is the quotient
\* avgNum / avgDen; min starts at the first price, max starts at 0.
LegacyStats(points) ==
    IF Len(points) = 0
    THEN [count |-> 0, avgNum |-> 0, avgDen |-> 1, min |-> 0, max |-> 0]
    ELSE [count |-> Len(points),
          avgNum |-> SumPrices(points, 1),
          avgDen |-> Len(points),
          min |-> CHOOSE m \in PricesOf(points) :
                      \A q \in PricesOf(points) : m <= q,
          max |-> CHOOSE m \in PricesOf(points) \cup {0} :
                      \A q \in PricesOf(points) \cup {0} : m >= q]

NoStats == [count |-> 0, avgNum |-> 0, avgDen |-> 1, min |-> 0, max |-> 0]

\* res.status(status).json({error, ...})
ErrorResponse(status, error, intervalKey, fromTimestamp, toTimestamp) ==
    [status |-> status, error |-> error, interval |-> intervalKey,
     from |-> fromTimestamp, to |-> toTimestamp, count |-> 0, ohlc |-> <<>>,
     dataPoints |-> <<>>, stats |-> NoStats, lastUpdated |-> Null]

\* res.json({interval, from_timestamp, to_timestamp, count, ohlc, lastUpdated})
OhlcResponse(intervalKey, fromTimestamp, toTimestamp, filteredData) ==
    [status |-> 200, error |-> "none", interval |-> intervalKey,
     from |-> fromTimestamp, to |-> toTimestamp, count |-> Len(filteredData),
     ohlc |-> filteredData, dataPoints |-> <<>>, stats |-> NoStats,
     lastUpdated |-> lastUpdated]

\* res.json({interval, ..., dataPoints, stats, lastUpdated})
LegacyResponse(intervalKey, fromTimestamp, toTimestamp, filteredData) ==
    [status |-> 200, error |-> "none", interval |-> intervalKey,
     from |-> fromTimestamp, to |-> toTimestamp, count |-> Len(filteredData),
     ohlc |-> <<>>, dataPoints |-> filteredData,
     stats |-> LegacyStats(filteredData), lastUpdated |-> lastUpdated]

\* GET /api/price/query and GET /api/price/ohlc: the same handler body.
HandleQuery(r) ==
    LET intervalKey == mapInterval(r.interval)
        fromTimestamp == ParseTimestamp(r.from)
        toTimestamp == ParseTimestamp(r.to)
    IN  IF r.interval = ""
        THEN ErrorResponse(400, "missingInterval", NoKey, NullTs, NullTs)
        ELSE IF intervalKey = NoKey
        THEN ErrorResponse(400, "invalidInterval", NoKey, NullTs, NullTs)
        ELSE IF fromTimestamp.kind = "nan"
        THEN ErrorResponse(400, "invalidFrom", NoKey, NullTs, NullTs)
        ELSE IF toTimestamp.kind = "nan"
        THEN ErrorResponse(400, "invalidTo", NoKey, NullTs, NullTs)
        ELSE IF /\ ~Falsy(fromTimestamp)
                /\ ~Falsy(toTimestamp)
                /\ fromTimestamp.val > toTimestamp.val
        THEN ErrorResponse(400, "fromAfterTo", NoKey, NullTs, NullTs)
        ELSE OhlcResponse(intervalKey, fromTimestamp, toTimestamp,
                 filterOHLCByTimeRange(ohlc[intervalKey], fromTimestamp,
                                       toTimestamp))

\* GET /api/price/ohlc/:interval
HandleOhlcInterval(r) ==
    LET intervalKey == mapInterval(r.interval)
        fromTimestamp == ParseTimestamp(r.from)
        toTimestamp == ParseTimestamp(r.to)
        filteredData == FilterIfBounded(ohlc[intervalKey], fromTimestamp,
                                        toTimestamp)
    IN  IF intervalKey = NoKey
        THEN ErrorResponse(400, "invalidInterval", NoKey, NullTs, NullTs)
        ELSE IF fromTimestamp.kind = "nan"
        THEN ErrorResponse(400, "invalidFrom", NoKey, NullTs, NullTs)
        ELSE IF toTimestamp.kind = "nan"
        THEN ErrorResponse(400, "invalidTo", NoKey, NullTs, NullTs)
        ELSE IF Len(filteredData) > 0
        THEN OhlcResponse(intervalKey, fromTimestamp, toTimestamp, filteredData)
        ELSE ErrorResponse(404, "noData", intervalKey, fromTimestamp,
                           toTimestamp)

\* The legacy data points of GET /api/price/:interval, filtered by the range.
LegacyPoints(intervalKey, fromTimestamp, toTimestamp) ==
    LET intervalData == getIntervalPrices(history, clock,
                            LegacyMinutes(intervalKey), DefaultLimit)
    IN  IF ~Falsy(fromTimestamp) \/ ~Falsy(toTimestamp)
        THEN SelectSeq(intervalData,
                LAMBDA item :
                    /\ (Falsy(fromTimestamp) \/ item.timestamp >= fromTimestamp.val)
                    /\ (Falsy(toTimestamp) \/ item.timestamp <= toTimestamp.val))
        ELSE intervalData

\* GET /api/price/:interval
HandlePriceInterval(r) ==
    LET intervalKey == mapInterval(r.interval)
        fromTimestamp == ParseTimestamp(r.from)
        toTimestamp == ParseTimestamp(r.to)
    IN  IF intervalKey = NoKey
        THEN ErrorResponse(400, "invalidInterval", NoKey, NullTs, NullTs)
        ELSE IF fromTimestamp.kind = "nan"
        THEN ErrorResponse(400, "invalidFrom", NoKey, NullTs, NullTs)
        ELSE IF toTimestamp.kind = "nan"
        THEN ErrorResponse(400, "invalidTo", NoKey, NullTs, NullTs)
        ELSE IF Len(ohlc[intervalKey]) > 0
        THEN OhlcResponse(intervalKey, fromTimestamp, toTimestamp,
                 FilterIfBounded(ohlc[intervalKey], fromTimestamp, toTimestamp))
        ELSE LegacyResponse(intervalKey, fromTimestamp, toTimestamp,
                 LegacyPoints(intervalKey, fromTimestamp, toTimestamp))

\* The handler of each route that takes an interval.
Handle(r) ==
    CASE r.route = "/api/price/query" -> HandleQuery(r)
      [] r.route = "/api/price/ohlc" -> HandleQuery(r)
      [] r.route = "/api/price/ohlc/:interval" -> HandleOhlcInterval(r)
      [] r.route = "/api/price/:interval" -> HandlePriceInterval(r)

----------------------------------------------------------------------------
(* The router.  A URL path is the sequence of its segments; an HTTP        *)
(* request is a path with the query parameters interval, from_timestamp    *)
(* and to_timestamp.  Express tries the routes in the order in which       *)
(* app.get registered them and runs the handler of the first that matches. *)

\* The app.get registrations, in source order.
RouteTable ==
    << [route |-> "/api/price", pattern |-> <<"api", "price">>],
       [route |-> "/api/price/latest", pattern |-> <<"api", "price", "latest">>],
       [route |-> "/api/price/query", pattern |-> <<"api", "price", "query">>],
       [route |-> "/api/price/ohlc", pattern |-> <<"api", "price", "ohlc">>],
       [route |-> "/api/price/ohlc/all",
        pattern |-> <<"api", "price", "ohlc", "all">>],
       [route |-> "/api/price/ohlc/:interval",
        pattern |-> <<"api", "price", "ohlc", ":interval">>],
       [route |-> "/api/price/:interval",
        pattern |-> <<"api", "price", ":interval">>],
       [route |-> "/api/price/all", pattern |-> <<"api", "price", "all">>],
       [route |-> "/api/price/intervals/all",
        pattern |-> <<"api", "price", "intervals", "all">>] >>

\* A pattern matches a path of as many segments whose fixed segments are
\* equal; the parameter segment matches any non-empty segment.
MatchRoute(pattern, path) ==
    /\ Len(pattern) = Len(path)
    /\ \A i \in 1..Len(pattern) :
          IF pattern[i] = ":interval" THEN path[i] # "" ELSE pattern[i] = path[i]

\* The index of the first registered route, from i on, that matches; 0 if none.
RECURSIVE FirstMatch(_, _)
FirstMatch(path, i) ==
    IF i > Len(RouteTable) THEN 0
    ELSE IF MatchRoute(RouteTable[i].pattern, path) THEN i
    ELSE FirstMatch(path, i + 1)

\* req.params.interval: the segment the parameter matched.
IntervalParam(pattern, path) ==
    LET at == {i \in 1..Len(pattern) : pattern[i] = ":interval"}
    IN  IF at = {} THEN "" ELSE path[CHOOSE i \in at : TRUE]

\* GET /api/price and GET /api/price/latest
HandleLatest ==
    [status |-> 200, error |-> "none", latest |-> latestPrice,
     lastUpdated |-> lastUpdated]

\* GET /api/price/ohlc/all
HandleOhlcAll ==
    [status |-> 200, error |-> "none", ohlc |-> ohlc, lastUpdated |-> lastUpdated]

\* GET /api/price/all and GET /api/price/intervals/all: the same handler body.
HandleAll ==
    [status |-> 200, error |-> "none",
     intervals |->
        [intervalKey \in Intervals |->
            IF Len(ohlc[intervalKey]) > 0
            THEN ohlc[intervalKey]
            ELSE getIntervalPrices(history, clock, LegacyMinutes(intervalKey),
                                   DefaultLimit)],
     lastUpdated |-> lastUpdated]

\* No route matches: the framework's 404.
NotFound == [status |-> 404, error |-> "notFound"]

\* The request as the matched handler reads it: the interval comes from the
\* path for a parameter route and from the query string otherwise.
HandlerRequest(i, http) ==
    LET fromPath == IntervalParam(RouteTable[i].pattern, http.path)
    IN  [route |-> RouteTable[i].route,
         interval |-> IF fromPath # "" THEN fromPath ELSE http.interval,
         from |-> http.from, to |-> http.to]

\* The route that handles the request ("none" if no route matches) and the
\* response its handler sends.
Respond(http) ==
    LET i == FirstMatch(http.path, 1)
        route == IF i = 0 THEN "none" ELSE RouteTable[i].route
    IN  [handler |-> route,
         body |->
            CASE route = "none" -> NotFound
              [] route \in {"/api/price", "/api/price/latest"} -> HandleLatest
              [] route = "/api/price/ohlc/all" -> HandleOhlcAll
              [] route \in {"/api/price/all", "/api/price/intervals/all"} ->
                    HandleAll
              [] OTHER -> Handle(HandlerRequest(i, http))]

----------------------------------------------------------------------------
(* The state after the module has been evaluated, before init() runs.      *)

Init ==
    /\ clock = 0
    /\ phase = "boot"
    /\ latestPrice = Null
    /\ lastUpdated = Null
    /\ history = <<>>
    /\ ohlc = emptyOhlc
    /\ disk = NoFile
    /\ writes = <<>>
    /\ pending = 0
    /\ fired = 0
    /\ restarts = 0
    /\ ingested = <<>>
    /\ lastOp = "start"
    /\ req = NoRequest
    /\ resp = NoResponse

----------------------------------------------------------------------------
(* Boot: initializeDataFile, awaited by init() before the timer starts.    *)

\* The data file does not exist: write the default state.
BootCreate ==
    /\ phase = "boot"
    /\ disk = NoFile
    /\ disk' = <<Snapshot>>
    /\ phase' = "running"
    /\ lastOp' = "created"
    /\ UNCHANGED <<clock, priceVars, writes, pending, fired, restarts,
                   ingested, req, resp>>

\* A file that fs.readJson cannot read or parse.
Garbled == <<[garbled |-> TRUE]>>

Readable(file) == "history" \in DOMAIN file[1]

\* A null entry of the history array in the file.
NullItem == [price |-> Null, timestamp |-> Null]

\* The index of the first null entry of h from i on, 0 if there is none.
RECURSIVE FirstNull(_, _)
FirstNull(h, i) ==
    IF i > Len(h) THEN 0
    ELSE IF h[i] = NullItem THEN i
    ELSE FirstNull(h, i + 1)

\* The timeframes in the order backfillHistoricalOHLC goes through them.
IntervalOrder == <<"5m", "15m", "30m", "1h", "12h", "24h", "1w", "1M">>

\* The backfill raises a TypeError: it destructures a null entry in the
\* first timeframe that it does not skip.
BackfillThrows(h, o) ==
    /\ FirstNull(h, 1) > 0
    /\ \E tf \in Intervals : ~BackfillSkips(o[tf])

\* The series when the error is raised: the first timeframe not skipped
\* holds the candles of the entries before the null one, the others are
\* as loaded.
PartialBackfill(h, o) ==
    LET k == CHOOSE i \in 1..Len(IntervalOrder) :
                 /\ ~BackfillSkips(o[IntervalOrder[i]])
                 /\ \A j \in 1..(i - 1) : BackfillSkips(o[IntervalOrder[j]])
        tf == IntervalOrder[k]
    IN  [o EXCEPT ![tf] = BackfillReplay(BackfillStart(o[tf]), intervals[tf],
                                         SubSeq(h, 1, FirstNull(h, 1) - 1), 1)]

\* The data file exists: Object.assign(priceData, data), then backfill.
BootLoad ==
    /\ phase = "boot"
    /\ disk # NoFile
    /\ Readable(disk)
    /\ ~BackfillThrows(disk[1].history, disk[1].ohlc)
    /\ latestPrice' = disk[1].latestPrice
    /\ lastUpdated' = disk[1].lastUpdated
    /\ history' = disk[1].history
    /\ ohlc' = backfillHistoricalOHLC(disk[1].history, disk[1].ohlc)
    /\ ingested' = disk[1].ticks
    /\ phase' = "running"
    /\ lastOp' = "loaded"
    /\ UNCHANGED <<clock, disk, writes, pending, fired, restarts, req, resp>>

\* The data file exists but fs.readJson rejects: the catch block logs.
BootReadFail ==
    /\ phase = "boot"
    /\ disk # NoFile
    /\ ~Readable(disk)
    /\ phase' = "running"
    /\ lastOp' = "loadFailed"
    /\ UNCHANGED <<clock, priceVars, disk, writes, pending, fired, restarts,
                   ingested, req, resp>>

\* The file was read and assigned, then the backfill raised: the catch block
\* logs, and priceData is what the assignment and the unfinished backfill
\* made it.
BootLoadThrows ==
    /\ phase = "boot"
    /\ disk # NoFile
    /\ Readable(disk)
    /\ BackfillThrows(disk[1].history, disk[1].ohlc)
    /\ latestPrice' = disk[1].latestPrice
    /\ lastUpdated' = disk[1].lastUpdated
    /\ history' = disk[1].history
    /\ ohlc' = PartialBackfill(disk[1].history, disk[1].ohlc)
    /\ ingested' = disk[1].ticks
    /\ phase' = "running"
    /\ lastOp' = "loadFailed"
    /\ UNCHANGED <<clock, disk, writes, pending, fired, restarts, req, resp>>

----------------------------------------------------------------------------
(* The ingestion cycle: updatePrice.                                       *)

\* setInterval(updatePrice, 1000): d seconds after the previous firing the
\* timer fires and an invocation starts awaiting fetchLatestPrice.
TimerFires(d) ==
    /\ phase = "running"
    /\ fired < MaxTicks
    /\ pending < MaxPending
    /\ clock' = clock + d
    /\ fired' = fired + 1
    /\ pending' = pending + 1
    /\ lastOp' = "timer"
    /\ UNCHANGED <<phase, priceVars, disk, writes, restarts, ingested, req, resp>>

\* Mutant of CycleHistory: the tick is put in front (unshift for push).
CycleHistoryUnshift(h, price, now) ==
    CleanHistory(<<[price |-> price, timestamp |-> now]>> \o h, now)

\* The body of updatePrice after a successful fetch, up to the save gate.
CycleHistory(h, price, now) ==
    CleanHistory(Append(h, [price |-> price, timestamp |-> now]), now)

CycleOhlc(o, price, now) == CleanOhlc(updateOHLCData(o, price, now), now)

\* fetchLatestPrice resolved with a price: the synchronous rest of the cycle.
FetchOk(price) ==
    /\ phase = "running"
    /\ pending > 0
    /\ pending' = pending - 1
    /\ latestPrice' = price
    /\ lastUpdated' = clock
    /\ history' = CycleHistory(history, price, clock)
    /\ ohlc' = CycleOhlc(ohlc, price, clock)
    /\ ingested' = Append(ingested, [price |-> price, timestamp |-> clock])
    /\ writes' = IF SaveDue(clock) THEN Append(writes, Snapshot') ELSE writes
    /\ lastOp' = "updated"
    /\ UNCHANGED <<clock, phase, disk, fired, restarts, req, resp>>

\* Mutant of FetchFail: the timestamp is taken before the null check.
FetchFailTouchesState ==
    /\ phase = "running"
    /\ pending > 0
    /\ pending' = pending - 1
    /\ lastUpdated' = clock
    /\ lastOp' = "fetchFailed"
    /\ UNCHANGED <<clock, phase, latestPrice, history, ohlc, disk, writes, fired,
                   restarts, ingested, req, resp>>

\* fetchLatestPrice resolved with null: only the log line.
FetchFail ==
    /\ phase = "running"
    /\ pending > 0
    /\ pending' = pending - 1
    /\ lastOp' = "fetchFailed"
    /\ UNCHANGED <<clock, phase, priceVars, disk, writes, fired, restarts,
                   ingested, req, resp>>

\* fs.writeJson finished: the file holds the snapshot taken at the call.
WriteDone ==
    /\ writes # <<>>
    /\ disk' = <<Head(writes)>>
    /\ writes' = Tail(writes)
    /\ lastOp' = "saved"
    /\ UNCHANGED <<clock, phase, priceVars, pending, fired, restarts,
                   ingested, req, resp>>

\* Mutant of WriteFail: the error is not caught, the rejection ends the process.
WriteFailCrashes ==
    /\ writes # <<>>
    /\ writes' = <<>>
    /\ phase' = "boot"
    /\ latestPrice' = Null
    /\ lastUpdated' = Null
    /\ history' = <<>>
    /\ ohlc' = emptyOhlc
    /\ ingested' = <<>>
    /\ pending' = 0
    /\ lastOp' = "saveFailed"
    /\ UNCHANGED <<clock, disk, fired, restarts, req, resp>>

\* fs.writeJson failed: saveDataToFile catches and logs.
WriteFail ==
    /\ writes # <<>>
    /\ writes' = Tail(writes)
    /\ lastOp' = "saveFailed"
    /\ UNCHANGED <<clock, phase, priceVars, disk, pending, fired, restarts,
                   ingested, req, resp>>

\* The process is stopped and started again: module state is rebuilt from
\* its initialisers, in-flight work is lost, the file stays.
Restart ==
    /\ phase = "running"
    /\ restarts < MaxRestarts
    /\ restarts' = restarts + 1
    /\ phase' = "boot"
    /\ latestPrice' = Null
    /\ lastUpdated' = Null
    /\ history' = <<>>
    /\ ohlc' = emptyOhlc
    /\ ingested' = <<>>
    /\ writes' = <<>>
    /\ pending' = 0
    /\ lastOp' = "restart"
    /\ UNCHANGED <<clock, disk, fired, req, resp>>

Next ==
    \/ BootCreate
    \/ BootLoad
    \/ \E d \in Steps : TimerFires(d)
    \/ \E p \in Prices : FetchOk(p)
    \/ FetchFail
    \/ WriteDone
    \/ WriteFail
    \/ Restart

Spec == Init /\ [][Next]_vars

----------------------------------------------------------------------------
(* Properties of the ingestion engine, checked under Spec.                 *)

IsPrefix(s, t) == Len(s) <= Len(t) /\ SubSeq(t, 1, Len(s)) = s

\* The ticks of a sequence that fall into the bucket starting at start.
TicksInBucket(ticks, ms, start) ==
    {k \in 1..Len(ticks) : (ticks[k].timestamp \div ms) * ms = start}

\* C1: for every timeframe, every candle's timestamp is a multiple of the
\* timeframe's duration, candle timestamps increase strictly along the
\* series, and low <= open <= high and low <= close <= high in every candle.
C1_CandlesWellFormed ==
    \A tf \in Intervals :
        LET s == ohlc[tf] IN
        /\ \A i \in 1..Len(s) :
              /\ s[i].timestamp % intervals[tf] = 0
              /\ s[i].low <= s[i].open /\ s[i].open <= s[i].high
              /\ s[i].low <= s[i].close /\ s[i].close <= s[i].high
        /\ \A i \in 1..(Len(s) - 1) : s[i].timestamp < s[i + 1].timestamp

\* A series of several candles, one of which has folded a higher and a
\* lower price, and a tick that was not on a bucket boundary.
C1_Witness ==
    /\ \E tf \in Intervals :
          /\ Len(ohlc[tf]) >= 2
          /\ \E i \in 1..Len(ohlc[tf]) :
                /\ ohlc[tf][i].low < ohlc[tf][i].high
                /\ ohlc[tf][i].close < ohlc[tf][i].high
    /\ \E k \in 1..Len(ingested) : ingested[k].timestamp % 300 # 0

\* C2: every candle's volume is the number of ingested ticks whose bucket
\* start is the candle's timestamp.
C2_VolumeCountsTicks ==
    \A tf \in Intervals :
        \A i \in 1..Len(ohlc[tf]) :
            ohlc[tf][i].volume =
                Cardinality(TicksInBucket(ingested, intervals[tf],
                                          ohlc[tf][i].timestamp))

\* C4: an ingestion cycle at time now leaves no tick older than
\* now - (24h + 60s) in the history and keeps every other tick, in order,
\* followed by the new tick; no other operation of the running process
\* removes a tick (a restart ends the process and its memory).
C4_HistoryTrim ==
    [][ /\ lastOp' = "updated" =>
             LET cutoff == lastUpdated' - (24 * 60 * 60 + 60)
                 kept == SelectSeq(history, LAMBDA x : x.timestamp >= cutoff)
             IN  /\ \A i \in 1..Len(history') : history'[i].timestamp >= cutoff
                 /\ history' = Append(kept, [price |-> latestPrice',
                                             timestamp |-> lastUpdated'])
        /\ lastOp' \notin {"updated", "restart"} => IsPrefix(history, history')
      ]_vars

\* A cycle has trimmed a tick while keeping one that is exactly at the cutoff.
C4_Witness ==
    /\ lastOp = "updated"
    /\ Len(history) >= 2
    /\ Len(history) < Len(ingested)
    /\ history[1].timestamp = lastUpdated - (24 * 60 * 60 + 60)

\* C10: when the fetch fails, latestPrice, lastUpdated, the history and every
\* candle series are unchanged and no save is started.
C10_FailedFetchChangesNothing ==
    [][ lastOp' = "fetchFailed" =>
            /\ UNCHANGED <<latestPrice, lastUpdated, history, ohlc>>
            /\ UNCHANGED <<writes, disk>>
      ]_vars

\* A fetch has failed inside the save window, after data was ingested.
C10_Witness ==
    /\ lastOp = "fetchFailed"
    /\ SaveDue(clock)
    /\ Len(history) > 0
    /\ lastUpdated < clock

\* C17: the history is ordered by non-decreasing timestamp in every state,
\* whatever the order in which the fetches of overlapping invocations
\* complete, and also after a restart that loads a snapshot.
C17_HistoryOrdered ==
    \A i \in 1..(Len(history) - 1) :
        history[i].timestamp <= history[i + 1].timestamp

\* Two invocations overlapped and their ticks carry the same timestamp; a
\* third tick came later, while yet another invocation awaited its fetch.
C17_Witness ==
    /\ lastOp = "updated"
    /\ Len(history) = 3
    /\ history[1].timestamp = history[2].timestamp
    /\ history[2].timestamp < history[3].timestamp
    /\ history[1].price # history[2].price

\* C21: after a successful cycle the tick just ingested is the last element
\* of the history, latestPrice and lastUpdated are its price and timestamp,
\* and in every timeframe the last candle is the one the tick went into (a
\* new candle of volume 1, or the former last candle with one more tick):
\* its close is latestPrice and its bucket holds lastUpdated, so retention
\* removed neither the tick nor any tail candle.
C21_TailAfterCycle ==
    [][ lastOp' = "updated" =>
            LET tick == [price |-> latestPrice', timestamp |-> lastUpdated'] IN
            /\ lastUpdated' = clock'
            /\ Len(history') >= 1
            /\ history'[Len(history')] = tick
            /\ ingested' = Append(ingested, tick)
            /\ \A tf \in Intervals :
                  LET s == ohlc[tf]
                      t == ohlc'[tf]
                      last == t[Len(t)]
                  IN  /\ Len(t) >= 1
                      /\ last.close = latestPrice'
                      /\ last.timestamp <= lastUpdated'
                      /\ lastUpdated' < last.timestamp + intervals[tf]
                      /\ \/ last.volume = 1 /\ last.open = latestPrice'
                         \/ /\ Len(s) >= 1
                            /\ last.timestamp = s[Len(s)].timestamp
                            /\ last.volume = s[Len(s)].volume + 1
      ]_vars

\* A cycle that trimmed the history, went into the last candle of one
\* series with a price other than its open, and opened a candle in another.
C21_Witness ==
    /\ lastOp = "updated"
    /\ Len(history) < Len(ingested)
    /\ \E tf \in Intervals :
          /\ ohlc[tf][Len(ohlc[tf])].volume >= 2
          /\ ohlc[tf][Len(ohlc[tf])].open # latestPrice
    /\ \E tf \in Intervals :
          /\ Len(ohlc[tf]) >= 2
          /\ ohlc[tf][Len(ohlc[tf])].volume = 1

\* C12: a failed save leaves latestPrice, lastUpdated, the history and every
\* candle series as they were and the service running: the file keeps its
\* content, invocations in flight stay in flight, and from the state after
\* the failure a pending fetch can complete and the timer can fire.
C12_SaveFailureHarmless ==
    [][ /\ lastOp' = "saveFailed" =>
             /\ UNCHANGED <<latestPrice, lastUpdated, history, ohlc>>
             /\ UNCHANGED <<phase, pending, disk, ingested>>
             /\ phase' = "running"
        /\ (lastOp = "saveFailed" /\ pending > 0) =>
             (ENABLED FetchOk(1) /\ ENABLED FetchFail)
        /\ (lastOp = "saveFailed" /\ fired < MaxTicks /\ pending < MaxPending) =>
             ENABLED TimerFires(1)
      ]_vars

\* A save has failed after two ticks were ingested, with another invocation
\* awaiting its fetch; the file still holds what it held before.
C12_Witness ==
    /\ lastOp = "saveFailed"
    /\ Len(history) >= 2
    /\ pending > 0
    /\ disk # NoFile
    /\ disk[1].history # history

\* C14: when boot has loaded a snapshot and the service starts, every series
\* has at most maxCandles candles, the age caps hold at the time of the boot
\* and the history holds no tick older than 24h plus the margin.
C14_RetentionAtBoot ==
    lastOp = "loaded" =>
        /\ \A tf \in Intervals : Len(ohlc[tf]) <= 100
        /\ \A i \in 1..Len(ohlc["1h"]) :
              ohlc["1h"][i].timestamp >= clock - 7 * 24 * 60 * 60
        /\ \A i \in 1..Len(ohlc["24h"]) :
              ohlc["24h"][i].timestamp >= clock - 30 * 24 * 60 * 60
        /\ \A i \in 1..Len(ohlc["1w"]) :
              ohlc["1w"][i].timestamp >= clock - 2 * 365 * 24 * 60 * 60
        /\ \A i \in 1..Len(ohlc["1M"]) :
              ohlc["1M"][i].timestamp >= clock - 10 * 365 * 24 * 60 * 60
        /\ \A i \in 1..Len(history) :
              history[i].timestamp >= clock - (24 * 60 * 60 + 60)

----------------------------------------------------------------------------
(* Retention over a long run: SpecRetention.  The timer fires when the     *)
(* previous cycle and its save have finished; the first firings may follow *)
(* a gap as long as one of the age windows, the later ones come one 5m     *)
(* bucket apart, so that the 5m series grows past maxCandles.              *)

GapSteps == {300, sevenDays, thirtyDays, twoYears, tenYears}

RetentionSteps == IF fired < MaxGapTicks THEN GapSteps ELSE {300}

TimerFiresLong(d) ==
    /\ phase = "running"
    /\ fired < MaxLongTicks
    /\ pending = 0
    /\ writes = <<>>
    /\ clock' = clock + d
    /\ fired' = fired + 1
    /\ pending' = pending + 1
    /\ lastOp' = "timer"
    /\ UNCHANGED <<phase, priceVars, disk, writes, restarts, ingested, req, resp>>

NextRetention ==
    \/ BootCreate
    \/ \E d \in RetentionSteps : TimerFiresLong(d)
    \/ FetchOk(1)
    \/ WriteDone

SpecRetention == Init /\ [][NextRetention]_vars

\* C3: after a completed ingestion cycle at time now every series holds at
\* most 100 candles, and the 1h, 24h, 1w and 1M series hold no candle older
\* than now minus 7 days, 30 days, 2 years and 10 years.
C3_RetentionCaps ==
    lastOp = "updated" =>
        /\ \A tf \in Intervals : Len(ohlc[tf]) <= 100
        /\ \A i \in 1..Len(ohlc["1h"]) :
              ohlc["1h"][i].timestamp >= lastUpdated - 7 * 86400
        /\ \A i \in 1..Len(ohlc["24h"]) :
              ohlc["24h"][i].timestamp >= lastUpdated - 30 * 86400
        /\ \A i \in 1..Len(ohlc["1w"]) :
              ohlc["1w"][i].timestamp >= lastUpdated - 2 * 365 * 86400
        /\ \A i \in 1..Len(ohlc["1M"]) :
              ohlc["1M"][i].timestamp >= lastUpdated - 10 * 365 * 86400

\* The count cap has dropped a 5m candle and the age cap has dropped the
\* first candle of each age-capped series (which never reach 100 candles).
C3_Witness ==
    /\ lastOp = "updated"
    /\ Len(ingested) > 100
    /\ Len(ohlc["5m"]) = 100
    /\ ohlc["5m"][1].timestamp > (ingested[1].timestamp \div 300) * 300
    /\ \A tf \in {"1h", "24h", "1w", "1M"} :
          /\ Len(ohlc[tf]) < 100
          /\ ohlc[tf][1].timestamp >
                 (ingested[1].timestamp \div intervals[tf]) * intervals[tf]

----------------------------------------------------------------------------
(* Backfill as a function of the loaded state: SpecBackfill.  An ordered   *)
(* history over a few timestamps and prices, and candle series of          *)
(* 0..MaxSeriesLen candles (one length for the timeframes up to 1h, one    *)
(* for the longer ones; none when there is no tick), are loaded;           *)
(* backfillHistoricalOHLC then runs twice.                                 *)

TickTimes == {0, 1, 300, 90000}

TickPool == [price : Prices, timestamp : TickTimes]

\* The histories of up to MaxHistLen ticks, in the order the engine keeps:
\* non-decreasing timestamps, ties allowed.
Histories ==
    {h \in UNION {[1..n -> TickPool] : n \in 0..MaxHistLen} :
        \A i \in 1..(Len(h) - 1) : h[i].timestamp <= h[i + 1].timestamp}

LoadedSeries(n, ms) ==
    [i \in 1..n |-> [timestamp |-> (i - 1) * ms, open |-> 1, high |-> 2,
                     low |-> 1, close |-> 2, volume |-> 5]]

LoadedOhlc ==
    {[tf \in Intervals |->
         LoadedSeries(IF tf \in {"5m", "15m", "30m", "1h"} THEN a ELSE b,
                      intervals[tf])] : a, b \in 0..MaxSeriesLen}

InitBackfill ==
    /\ clock = 0
    /\ phase = "boot"
    /\ latestPrice = Null
    /\ lastUpdated = Null
    /\ history \in Histories
    /\ ohlc \in LoadedOhlc
    /\ history = <<>> => ohlc = emptyOhlc
    /\ disk = NoFile
    /\ writes = <<>>
    /\ pending = 0
    /\ fired = 0
    /\ restarts = 0
    /\ ingested = <<>>
    /\ lastOp = "start"
    /\ req = [route |-> "backfill", before |-> ohlc]
    /\ resp = [runs |-> 0, first |-> ohlc]

\* One call of backfillHistoricalOHLC(); resp keeps the result of the first.
RunBackfill ==
    /\ req.route = "backfill"
    /\ resp.runs < 2
    /\ ohlc' = backfillHistoricalOHLC(history, ohlc)
    /\ resp' = [runs |-> resp.runs + 1,
                first |-> IF resp.runs = 0 THEN ohlc' ELSE resp.first]
    /\ lastOp' = "backfilled"
    /\ UNCHANGED <<clock, phase, latestPrice, lastUpdated, history, disk, writes,
                   pending, fired, restarts, ingested, req>>

NextBackfill == RunBackfill

SpecBackfill == InitBackfill /\ [][NextBackfill]_vars

\* C5: after backfill has run twice on an unchanged history, every candle
\* series is what it was after the first run.
C5_BackfillIdempotent ==
    (req.route = "backfill" /\ resp.runs = 2) => ohlc = resp.first

\* Two runs that rebuilt a series: it was loaded with one candle, and comes
\* out of both runs as one candle that folded two ticks.
C5_Witness ==
    /\ req.route = "backfill"
    /\ resp.runs = 2
    /\ ohlc # req.before
    /\ \E tf \in Intervals :
          /\ Len(req.before[tf]) = 1
          /\ Len(ohlc[tf]) = 1
          /\ ohlc[tf][1].volume = 2

\* The series that replaying the first k ticks of h through the update rule
\* gives, starting from an empty series and without the count cap: a new
\* candle iff the series is empty or timestamp >= last.timestamp + ms.
RECURSIVE C15_UpdateReplay(_, _, _)
C15_UpdateReplay(h, ms, k) ==
    IF k = 0 THEN <<>>
    ELSE LET s == C15_UpdateReplay(h, ms, k - 1)
             price == h[k].price
             timestamp == h[k].timestamp
             last == s[Len(s)]
         IN  IF s = <<>> \/ timestamp >= last.timestamp + ms
             THEN Append(s, [timestamp |-> (timestamp \div ms) * ms,
                             open |-> price, high |-> price, low |-> price,
                             close |-> price, volume |-> 1])
             ELSE [s EXCEPT ![Len(s)] =
                      [timestamp |-> last.timestamp, open |-> last.open,
                       high |-> IF price > last.high THEN price ELSE last.high,
                       low |-> IF price < last.low THEN price ELSE last.low,
                       close |-> price, volume |-> last.volume + 1]]

\* C15: after backfill, every series that was loaded with fewer than 2
\* candles equals the replay of the history, in stored order, through the
\* update rule of updateOHLCData without the cap, so that backfill's bucket
\* comparison decides new-or-mutate on every tick as the update rule does.
C15_BackfillIsReplay ==
    (req.route = "backfill" /\ resp.runs >= 1) =>
        \A tf \in Intervals :
            Len(req.before[tf]) < 2 =>
                ohlc[tf] = C15_UpdateReplay(history, intervals[tf], Len(history))

\* A backfill that rebuilt a one-candle series from two ticks in different
\* buckets, and another series from the same ticks into one candle.
C15_Witness ==
    /\ req.route = "backfill"
    /\ resp.runs = 1
    /\ Len(history) = 2
    /\ history[1].price # history[2].price
    /\ \E tf \in Intervals :
          /\ Len(req.before[tf]) = 1
          /\ Len(ohlc[tf]) = 2
          /\ ohlc[tf][2].timestamp > ohlc[tf][1].timestamp + intervals[tf]
    /\ \E tf \in Intervals :
          /\ Len(req.before[tf]) = 1
          /\ Len(ohlc[tf]) = 1
          /\ ohlc[tf][1].volume = 2
          /\ ohlc[tf][1].low < ohlc[tf][1].high

----------------------------------------------------------------------------
(* The raw-sample query as a function of its inputs: SpecSample.  The      *)
(* history holds n ticks one second apart; the query comes right after the *)
(* last tick, 264 seconds later (a 5-minute window then holds the last 37  *)
(* ticks) or long after (every window is empty).                           *)

SampleHistory(n) == [i \in 1..n |-> [price |-> (i % 3) + 1, timestamp |-> i]]

SampleDelays == {0, 264, 700000}

\* The windows asked for: five minutes and one week.
SampleMinutes == {5, 10080}

InitSample ==
    /\ \E n \in 0..MaxSamples, d \in SampleDelays :
          /\ history = SampleHistory(n)
          /\ clock = n + d
    /\ phase = "running"
    /\ latestPrice = Null
    /\ lastUpdated = Null
    /\ ohlc = emptyOhlc
    /\ disk = NoFile
    /\ writes = <<>>
    /\ pending = 0
    /\ fired = 0
    /\ restarts = 0
    /\ ingested = <<>>
    /\ lastOp = "start"
    /\ req = NoRequest
    /\ resp = NoResponse

Sample(minutes, limit) ==
    /\ req' = [route |-> "sample", minutes |-> minutes, limit |-> limit]
    /\ resp' = [points |-> getIntervalPrices(history, clock, minutes, limit)]
    /\ lastOp' = "sampled"
    /\ UNCHANGED <<clock, phase, priceVars, disk, writes, pending, fired,
                   restarts, ingested>>

NextSample == \E minutes \in SampleMinutes, limit \in 1..MaxLimit : Sample(minutes, limit)

SpecSample == InitSample /\ [][NextSample]_vars

\* The points the sampling starts from: the ticks of the window, or the
\* whole history when a window of a week or more is empty.
C6_Filtered ==
    LET inWindow == SelectSeq(history,
                              LAMBDA x : x.timestamp >= clock - req.minutes * 60)
    IN  IF inWindow = <<>> /\ req.minutes >= 10080 THEN history ELSE inWindow

\* C6: with n filtered points, if n <= limit the output is the input; if
\* n > limit the output has exactly limit points, the first limit-1 at
\* indices 0, step, 2*step, ... with step = floor(n / limit), the last one
\* the last input point, and no point twice.
C6_Downsampling ==
    req.route = "sample" =>
        LET f == C6_Filtered
            n == Len(f)
            limit == req.limit
            out == resp.points
            step == n \div limit
        IN  /\ n <= limit => out = f
            /\ n > limit =>
                  /\ Len(out) = limit
                  /\ \A i \in 1..(limit - 1) : out[i] = f[(i - 1) * step + 1]
                  /\ out[limit] = f[n]
                  /\ \A i, j \in 1..limit : i # j => out[i] # out[j]

\* 37 points of a 5-minute window, out of 38 stored, sampled down to 10: the
\* 10th is the point at index 36, not the one at index 27.
C6_Witness ==
    /\ req.route = "sample"
    /\ req.limit = 10
    /\ Len(history) = 38
    /\ Len(C6_Filtered) = 37
    /\ Len(resp.points) = 10
    /\ resp.points[10] = C6_Filtered[37]
    /\ resp.points[10] # C6_Filtered[28]
    /\ resp.points[9] = C6_Filtered[25]

----------------------------------------------------------------------------
(* Queries against a running engine: SpecQuery.  A few ticks are ingested, *)
(* five or fifteen minutes apart; between two cycles one request of the    *)
(* set below is handled, and the run ends with it (a handler changes       *)
(* nothing, so a later request would find the state the earlier one did).  *)

QuerySteps == {300, 900}

Routes == {"/api/price/query", "/api/price/ohlc", "/api/price/ohlc/:interval",
           "/api/price/:interval"}

\* Interval tokens: every alias mapInterval knows, and some it does not;
\* "" stands for a missing interval parameter.
Tokens ==
    {"5", "5m", "15", "15m", "30", "30m", "60", "1", "1h", "1hour", "720", "12",
     "12h", "1440", "24", "24h", "1w", "week", "1M", "month",
     "7m", "all", "latest", "1H", "1m", "2", "hour", ""}

\* Timestamp parameters: absent, empty, "0", "600", "1000", "2000", "abc".
TimestampParams ==
    {Absent, Param(<<>>), Param(<<"0">>), Param(<<"6", "0", "0">>),
     Param(<<"1", "0", "0", "0">>), Param(<<"2", "0", "0", "0">>),
     Param(<<"a", "b", "c">>)}

\* A path parameter is never empty; a query parameter may be missing.
Requests ==
    {[route |-> rt, interval |-> tok, from |-> Absent, to |-> Absent] :
        rt \in {"/api/price/query", "/api/price/ohlc"}, tok \in Tokens}
    \cup
    {[route |-> rt, interval |-> tok, from |-> Absent, to |-> Absent] :
        rt \in {"/api/price/ohlc/:interval", "/api/price/:interval"},
        tok \in Tokens \ {""}}
    \cup
    {[route |-> rt, interval |-> "5m", from |-> f, to |-> t] :
        rt \in Routes, f \in TimestampParams, t \in TimestampParams}

TimerFiresQuery(d) ==
    /\ phase = "running"
    /\ lastOp # "query"
    /\ fired < MaxQueryTicks
    /\ pending = 0
    /\ clock' = clock + d
    /\ fired' = fired + 1
    /\ pending' = pending + 1
    /\ lastOp' = "timer"
    /\ UNCHANGED <<phase, priceVars, disk, writes, restarts, ingested, req, resp>>

\* An HTTP request is handled: the handlers read the state and change nothing.
Query(r) ==
    /\ phase = "running"
    /\ lastOp # "query"
    /\ pending = 0
    /\ req' = r
    /\ resp' = Handle(r)
    /\ lastOp' = "query"
    /\ UNCHANGED <<clock, phase, priceVars, disk, writes, pending, fired,
                   restarts, ingested>>

NextQuery ==
    \/ BootCreate
    \/ \E d \in QuerySteps : TimerFiresQuery(d)
    \/ \E p \in Prices : FetchOk(p)
    \/ \E r \in Requests : Query(r)

SpecQuery == Init /\ [][NextQuery]_vars

\* A parameter that supplies an integer, and the integer.
Supplied(param) == param.given /\ parseInt(param.text).kind = "num"
ValueOf(param) == parseInt(param.text).val

\* The tokens that name a timeframe.
TimeframeTokens ==
    {"5", "5m", "15", "15m", "30", "30m", "60", "1", "1h", "1hour", "720", "12",
     "12h", "1440", "24", "24h", "1w", "week", "1M", "month"}

\* C7: on each of the four entry points, for every valid timeframe token, a
\* request whose from is greater than its to is rejected with an error and
\* returns no candle data.
C7_InvertedRangeRejected ==
    ( /\ lastOp = "query"
      /\ req.interval \in TimeframeTokens
      /\ Supplied(req.from) /\ Supplied(req.to)
      /\ ValueOf(req.from) > ValueOf(req.to) )
    => ( /\ resp.status >= 400
         /\ resp.ohlc = <<>>
         /\ resp.dataPoints = <<>> )

\* C8: a candle-series result holds exactly the candles of the timeframe
\* with from <= timestamp <= to, in series order, where a bound is open only
\* when it was not supplied (a supplied 0 is a bound).
C8_RangeExact ==
    ( /\ lastOp = "query"
      /\ resp.status = 200
      /\ Len(ohlc[resp.interval]) > 0 )
    => resp.ohlc =
         SelectSeq(ohlc[resp.interval],
            LAMBDA c :
                /\ (Supplied(req.from) => c.timestamp >= ValueOf(req.from))
                /\ (Supplied(req.to) => c.timestamp <= ValueOf(req.to)))

\* The alias table as the claim gives it, and with the alias "1hour".
C9_ClaimedAliases ==
    {<<"5", "5m">>, <<"5m", "5m">>, <<"15", "15m">>, <<"15m", "15m">>,
     <<"30", "30m">>, <<"30m", "30m">>, <<"60", "1h">>, <<"1", "1h">>,
     <<"1h", "1h">>, <<"720", "12h">>, <<"12", "12h">>, <<"12h", "12h">>,
     <<"1440", "24h">>, <<"24", "24h">>, <<"24h", "24h">>, <<"1w", "1w">>,
     <<"week", "1w">>, <<"1M", "1M">>, <<"month", "1M">>}

C9_ActualAliases == C9_ClaimedAliases \cup {<<"1hour", "1h">>}

\* The handled request resolves its token by the table: a token of the
\* table yields that timeframe, every other token an interval error with no
\* data.
C9_ResolvesBy(table) ==
    lastOp = "query" =>
        /\ \A a \in table :
              a[1] = req.interval =>
                  /\ resp.error \notin {"missingInterval", "invalidInterval"}
                  /\ resp.error \in {"none", "noData"} => resp.interval = a[2]
        /\ (\A a \in table : a[1] # req.interval) =>
                  /\ resp.status = 400
                  /\ resp.error \in {"missingInterval", "invalidInterval"}
                  /\ resp.ohlc = <<>>
                  /\ resp.dataPoints = <<>>

\* C9 as claimed: exactly the 19 aliases of the claim name a timeframe.
C9_AliasTableAsClaimed == C9_ResolvesBy(C9_ClaimedAliases)

\* C9 amended: the 19 aliases of the claim and "1hour" (for 1h) name a
\* timeframe; every other token is rejected without data.
C9_AliasTable == C9_ResolvesBy(C9_ActualAliases)

\* The token "12" has resolved to the 12h series and returned its candles.
C9_Witness ==
    /\ lastOp = "query"
    /\ req.interval = "12"
    /\ resp.status = 200
    /\ resp.interval = "12h"
    /\ Len(resp.ohlc) > 0
    /\ resp.ohlc = ohlc["12h"]

----------------------------------------------------------------------------
(* The event loop.  init() awaits initializeDataFile() before it starts    *)
(* the timer and the server, and a callback (a timer firing, the rest of   *)
(* updatePrice after an await, a request handler) starts only when no      *)
(* other is on the stack.  phase is "loaded" between Object.assign and the *)
(* backfill, "pushed" between the history push and updateOHLCData, and     *)
(* "aggregated" between updateOHLCData and cleanupOldData.                 *)

\* Mutant of Listening: the timer and the server are started before the await.
ListeningBeforeLoad == TRUE

\* setInterval and app.listen have been called.
Listening == phase \notin {"boot", "loaded"}

\* Mutant of InCallback: the section yields to the event loop half-way.
InCallbackYields == FALSE

\* A synchronous section of initializeDataFile or updatePrice is on the stack.
InCallback == phase \in {"loaded", "pushed", "aggregated"}

\* An HTTP request is routed and handled; the run ends with it (a handler
\* changes nothing, so a later request finds the state this one found).
Serve(http) ==
    /\ Listening
    /\ ~InCallback
    /\ lastOp # "served"
    /\ req' = http
    /\ resp' = Respond(http)
    /\ lastOp' = "served"
    /\ UNCHANGED <<clock, phase, priceVars, disk, writes, pending, fired,
                   restarts, ingested>>

----------------------------------------------------------------------------
(* Requests by path: SpecRoutes.  A few ticks are ingested, then a request *)
(* for one of the paths below is served.                                   *)

Paths ==
    {<<"api", "price">>, <<"api", "price", "latest">>, <<"api", "price", "query">>,
     <<"api", "price", "ohlc">>, <<"api", "price", "ohlc", "all">>,
     <<"api", "price", "ohlc", "5m">>, <<"api", "price", "5m">>,
     <<"api", "price", "all">>, <<"api", "price", "intervals", "all">>,
     <<"api", "price", "intervals", "5m">>, <<"api">>}

HttpRequests ==
    {[path |-> p, interval |-> tok, from |-> Absent, to |-> Absent] :
        p \in Paths, tok \in {"", "5m"}}

NextRoutes ==
    \/ BootCreate
    \/ \E d \in QuerySteps : TimerFiresQuery(d)
    \/ \E p \in Prices : FetchOk(p)
    \/ \E http \in HttpRequests : Serve(http)

SpecRoutes == Init /\ [][NextRoutes]_vars

\* The fixed-path routes.
FixedRoutes ==
    {RouteTable[i] : i \in {j \in 1..Len(RouteTable) :
                                \A k \in 1..Len(RouteTable[j].pattern) :
                                    RouteTable[j].pattern[k] # ":interval"}}

\* C20: a request whose path is a fixed-path route is handled by that
\* route's handler, not by a parameter route; in particular /api/price/all
\* is answered with the per-interval data.
C20_FixedRoutesFirst ==
    lastOp = "served" =>
        /\ \A rt \in FixedRoutes :
              req.path = rt.pattern => resp.handler = rt.route
        /\ req.path = <<"api", "price", "all">> => resp.body.status = 200

----------------------------------------------------------------------------
(* updatePrice statement by statement: SpecSteps.  The synchronous rest of *)
(* a cycle is taken in three steps; invocations overlap while they await   *)
(* the fetch or the save, and requests are served whenever the event loop  *)
(* can start a callback.                                                   *)

\* fetchLatestPrice resolved with a price: the assignments and the push.
CyclePush(price) ==
    /\ Listening
    /\ ~InCallback
    /\ pending > 0
    /\ pending' = pending - 1
    /\ latestPrice' = price
    /\ lastUpdated' = clock
    /\ history' = Append(history, [price |-> price, timestamp |-> clock])
    /\ ingested' = Append(ingested, [price |-> price, timestamp |-> clock])
    /\ phase' = "pushed"
    /\ lastOp' = "pushed"
    /\ UNCHANGED <<clock, ohlc, disk, writes, fired, restarts, req, resp>>

\* updateOHLCData(price, now)
CycleAggregate ==
    /\ phase = "pushed"
    /\ ohlc' = updateOHLCData(ohlc, latestPrice, lastUpdated)
    /\ phase' = "aggregated"
    /\ lastOp' = "aggregated"
    /\ UNCHANGED <<clock, latestPrice, lastUpdated, history, disk, writes,
                   pending, fired, restarts, ingested, req, resp>>

\* cleanupOldData(), then the save gate; the invocation awaits the save or ends.
CycleRetain ==
    /\ phase = "aggregated"
    /\ history' = CleanHistory(history, clock)
    /\ ohlc' = CleanOhlc(ohlc, clock)
    /\ phase' = "running"
    /\ UNCHANGED <<latestPrice, lastUpdated, ingested>>
    /\ writes' = IF SaveDue(lastUpdated) THEN Append(writes, Snapshot') ELSE writes
    /\ lastOp' = "updated"
    /\ UNCHANGED <<clock, disk, pending, fired, restarts, req, resp>>

\* The timer fires d seconds after the previous firing, also while earlier
\* invocations still await their fetch.
TimerFiresSteps(d) ==
    /\ Listening
    /\ ~InCallback
    /\ fired < MaxStepTicks
    /\ pending < MaxPending
    /\ clock' = clock + d
    /\ fired' = fired + 1
    /\ pending' = pending + 1
    /\ lastOp' = "timer"
    /\ UNCHANGED <<phase, priceVars, disk, writes, restarts, ingested, req, resp>>

\* Elapsed time between firings: within a bucket, or past the history window.
StepGaps == {1, 86460}

StepRequests ==
    {[path |-> p, interval |-> "", from |-> Absent, to |-> Absent] :
        p \in {<<"api", "price", "ohlc", "all">>,
               <<"api", "price", "intervals", "all">>}}

NextSteps ==
    \/ BootCreate
    \/ \E d \in StepGaps : TimerFiresSteps(d)
    \/ \E p \in Prices : CyclePush(p)
    \/ CycleAggregate
    \/ CycleRetain
    \/ FetchFail
    \/ WriteDone
    \/ \E http \in StepRequests : Serve(http)

SpecSteps == Init /\ [][NextSteps]_vars

\* The history and the candle series after the first k of the ticks have
\* each gone through a whole cycle, starting from the empty state.
RECURSIVE WholeHistory(_, _)
WholeHistory(ticks, k) ==
    IF k = 0 THEN <<>>
    ELSE CycleHistory(WholeHistory(ticks, k - 1), ticks[k].price,
                      ticks[k].timestamp)

RECURSIVE WholeOhlc(_, _)
WholeOhlc(ticks, k) ==
    IF k = 0 THEN emptyOhlc
    ELSE CycleOhlc(WholeOhlc(ticks, k - 1), ticks[k].price, ticks[k].timestamp)

\* C11: whatever the interleaving of overlapping updatePrice invocations and
\* requests, a request is served from a state in which every tick taken in
\* so far has been applied completely (history push, all eight series,
\* retention), and its response shows that state.
C11_QueriesSeeWholeCycles ==
    lastOp = "served" =>
        LET n == Len(ingested) IN
        /\ history = WholeHistory(ingested, n)
        /\ ohlc = WholeOhlc(ingested, n)
        /\ latestPrice = IF n = 0 THEN Null ELSE ingested[n].price
        /\ lastUpdated = IF n = 0 THEN Null ELSE ingested[n].timestamp
        /\ resp.body.lastUpdated = lastUpdated
        /\ req.path = <<"api", "price", "ohlc", "all">> =>
              resp.body.ohlc = WholeOhlc(ingested, n)
        /\ req.path = <<"api", "price", "intervals", "all">> =>
              \A tf \in Intervals :
                  n > 0 => resp.body.intervals[tf] = WholeOhlc(ingested, n)[tf]

\* A request served between two overlapping invocations: two ticks are in,
\* a third invocation awaits its fetch and a save is still being written.
C11_Witness ==
    /\ lastOp = "served"
    /\ req.path = <<"api", "price", "ohlc", "all">>
    /\ Len(ingested) >= 2
    /\ pending >= 1
    /\ writes # <<>>
    /\ Len(history) < Len(ingested)

\* C18: a save is started only by an ingestion cycle whose fetch succeeded
\* and whose timestamp lies in the first second of a minute, every such
\* cycle starts one, and what it writes is the state after the tick was
\* appended, the series updated and retention applied.
C18_SaveGate ==
    [][ /\ Len(writes') > Len(writes) =>
             /\ lastOp' = "updated"
             /\ lastUpdated' % 60 = 0
             /\ Len(writes') = Len(writes) + 1
             /\ SubSeq(writes', 1, Len(writes)) = writes
             /\ LET saved == writes'[Len(writes')] IN
                   /\ saved.latestPrice = latestPrice'
                   /\ saved.lastUpdated = lastUpdated'
                   /\ saved.ohlc = ohlc'
                   /\ saved.history = history'
                   /\ saved.history[Len(saved.history)] =
                          [price |-> latestPrice', timestamp |-> lastUpdated']
                   /\ \A i \in 1..Len(saved.history) :
                          saved.history[i].timestamp >=
                              lastUpdated' - (24 * 60 * 60 + 60)
                   /\ \A tf \in Intervals :
                          saved.ohlc[tf][Len(saved.ohlc[tf])].close = latestPrice'
        /\ (lastOp' = "updated" /\ lastUpdated' % 60 # 0) => writes' = writes
        /\ (lastOp' = "updated" /\ lastUpdated' % 60 = 0) =>
             Len(writes') = Len(writes) + 1
        /\ lastOp' \in {"created", "timer", "fetchFailed", "pushed", "aggregated"} =>
             writes' = writes
      ]_vars

\* A cycle outside the save window started no save although an earlier
\* cycle, inside the window, did and its write is still in progress.
C18_Witness ==
    /\ lastOp = "updated"
    /\ lastUpdated % 60 # 0
    /\ Len(writes) = 1
    /\ writes[1].lastUpdated % 60 = 0
    /\ writes[1].lastUpdated < lastUpdated
    /\ Len(writes[1].history) < Len(history)

----------------------------------------------------------------------------
(* Boot statement by statement: SpecBoot.  The process ingests a few       *)
(* ticks, is restarted, and boots from the file it wrote; the load is      *)
(* taken in two steps, Object.assign and the backfill.                     *)

\* fs.readJson resolved: Object.assign(priceData, data).
BootRead ==
    /\ phase = "boot"
    /\ disk # NoFile
    /\ Readable(disk)
    /\ ~BackfillThrows(disk[1].history, disk[1].ohlc)
    /\ latestPrice' = disk[1].latestPrice
    /\ lastUpdated' = disk[1].lastUpdated
    /\ history' = disk[1].history
    /\ ohlc' = disk[1].ohlc
    /\ ingested' = disk[1].ticks
    /\ phase' = "loaded"
    /\ lastOp' = "read"
    /\ UNCHANGED <<clock, disk, writes, pending, fired, restarts, req, resp>>

\* backfillHistoricalOHLC(), in the same synchronous section; then
\* initializeDataFile returns and init() starts the timer and the server.
BootBackfill ==
    /\ phase = "loaded"
    /\ ohlc' = backfillHistoricalOHLC(history, ohlc)
    /\ phase' = "running"
    /\ lastOp' = "loaded"
    /\ UNCHANGED <<clock, latestPrice, lastUpdated, history, disk, writes,
                   pending, fired, restarts, ingested, req, resp>>

NextBoot ==
    \/ BootCreate
    \/ BootRead
    \/ BootBackfill
    \/ \E d \in StepGaps : TimerFiresSteps(d)
    \/ \E p \in Prices : FetchOk(p)
    \/ FetchFail
    \/ WriteDone
    \/ Restart
    \/ \E http \in StepRequests : Serve(http)

SpecBoot == Init /\ [][NextBoot]_vars

\* C13: the timer fires, a fetch of updatePrice resolves and a request is
\* served only once boot is over (never before the snapshot is read, nor
\* between the read and the backfill), and the step that follows the read
\* is the backfill of what was read.
C13_BootBeforeService ==
    [][ /\ lastOp' \in {"timer", "updated", "fetchFailed", "served"} =>
             phase \notin {"boot", "loaded"}
        /\ phase = "loaded" =>
             /\ lastOp' = "loaded"
             /\ phase' = "running"
             /\ ohlc' = backfillHistoricalOHLC(disk[1].history, disk[1].ohlc)
             /\ UNCHANGED <<history, pending, fired>>
        /\ phase \in {"boot", "loaded"} => pending = 0
      ]_vars

\* A request served after a restart that loaded a snapshot with data.
C13_Witness ==
    /\ lastOp = "served"
    /\ restarts = 1
    /\ disk # NoFile
    /\ disk[1].history # <<>>
    /\ history = disk[1].history
    /\ pending = 0

----------------------------------------------------------------------------
(* updateOHLCData as a function of the series: SpecUpdate.  Every series   *)
(* holds n consecutive candles up to the bucket of the starting time, n    *)
(* from none to maxCandles; ticks then arrive after no time, a second, a   *)
(* 5m bucket, eight days or three months and more.                         *)

\* The starting time: late enough for maxCandles monthly candles before it.
UpdateEpoch == maxCandles * intervals["1M"]

UpdateLens == {0, 1, 2, maxCandles - 1, maxCandles}

UpdateGaps == {0, 1, 300, 8 * 24 * 60 * 60, 3 * intervals["1M"] + 7}

\* n consecutive candles, the last one in the bucket of time now.
SeriesUpTo(n, ms, now, price) ==
    [i \in 1..n |-> [timestamp |-> RoundDown(now, ms) - (n - i) * ms,
                     open |-> price, high |-> price, low |-> price,
                     close |-> price, volume |-> i]]

InitUpdate ==
    /\ clock = UpdateEpoch
    /\ phase = "running"
    /\ latestPrice = Null
    /\ lastUpdated = Null
    /\ history = <<>>
    /\ \E n \in UpdateLens, price \in Prices :
          ohlc = [tf \in Intervals |-> SeriesUpTo(n, intervals[tf], clock, price)]
    /\ disk = NoFile
    /\ writes = <<>>
    /\ pending = 0
    /\ fired = 0
    /\ restarts = 0
    /\ ingested = <<>>
    /\ lastOp = "start"
    /\ req = NoRequest
    /\ resp = [runs |-> 0]

\* One call updateOHLCData(price, timestamp), d seconds after the last.
ApplyUpdate(price, d) ==
    /\ resp.runs < MaxUpdates
    /\ clock' = clock + d
    /\ ohlc' = updateOHLCData(ohlc, price, clock')
    /\ req' = [route |-> "update", before |-> ohlc, price |-> price,
               timestamp |-> clock']
    /\ resp' = [runs |-> resp.runs + 1]
    /\ lastOp' = "aggregated"
    /\ UNCHANGED <<phase, latestPrice, lastUpdated, history, disk, writes,
                   pending, fired, restarts, ingested>>

NextUpdate == \E price \in Prices, d \in UpdateGaps : ApplyUpdate(price, d)

SpecUpdate == InitUpdate /\ [][NextUpdate]_vars

\* C16: one update of a series either appends exactly one candle, at the
\* tick's bucket (whatever the number of buckets skipped), after the
\* candles that remain of the old series, or changes only the last candle
\* (high, low, close, volume); each remaining earlier candle is unchanged.
C16_TailOnly ==
    req.route = "update" =>
        \A tf \in Intervals :
            LET s == req.before[tf]
                t == ohlc[tf]
                ms == intervals[tf]
                price == req.price
            IN  IF s = <<>> \/ req.timestamp >= s[Len(s)].timestamp + ms
                THEN /\ Len(t) >= 1
                     /\ Len(t) <= Len(s) + 1
                     /\ t[Len(t)] = [timestamp |-> (req.timestamp \div ms) * ms,
                                     open |-> price, high |-> price,
                                     low |-> price, close |-> price,
                                     volume |-> 1]
                     /\ \A i \in 1..(Len(t) - 1) :
                           t[i] = s[Len(s) + 1 - Len(t) + i]
                ELSE /\ Len(t) = Len(s)
                     /\ \A i \in 1..(Len(s) - 1) : t[i] = s[i]
                     /\ t[Len(t)].timestamp = s[Len(s)].timestamp
                     /\ t[Len(t)].open = s[Len(s)].open
                     /\ t[Len(t)].close = price
                     /\ t[Len(t)].volume = s[Len(s)].volume + 1
                     /\ t[Len(t)].high \in {s[Len(s)].high, price}
                     /\ t[Len(t)].low \in {s[Len(s)].low, price}
                     /\ t[Len(t)].high >= price /\ t[Len(t)].high >= s[Len(s)].high
                     /\ t[Len(t)].low <= price /\ t[Len(t)].low <= s[Len(s)].low

\* A tick eight days after the last candle: the full 5m series gets one new
\* candle, with no candle for the buckets in between, and loses its oldest,
\* while the monthly series of the same state has its last candle changed.
C16_Witness ==
    /\ req.route = "update"
    /\ Len(req.before["5m"]) = maxCandles
    /\ Len(ohlc["5m"]) = maxCandles
    /\ ohlc["5m"][maxCandles].timestamp >
           ohlc["5m"][maxCandles - 1].timestamp + 2 * intervals["5m"]
    /\ ohlc["5m"][1] = req.before["5m"][2]
    /\ Len(ohlc["1M"]) = Len(req.before["1M"])
    /\ ohlc["1M"][maxCandles].low < ohlc["1M"][maxCandles].high
    /\ ohlc["1M"][maxCandles - 1] = req.before["1M"][maxCandles - 1]

----------------------------------------------------------------------------
(* Boot over whatever the data file holds: SpecLoad.  There is no file, a  *)
(* file that cannot be parsed, a snapshot as the engine writes it, or a    *)
(* snapshot whose history array has a null entry.                          *)

\* The snapshot a file holds: the last tick gives latestPrice and lastUpdated.
FileOf(h, o) ==
    <<[latestPrice |-> IF h = <<>> THEN Null ELSE h[Len(h)].price,
       lastUpdated |-> IF h = <<>> THEN Null ELSE h[Len(h)].timestamp,
       history |-> h, ohlc |-> o, ticks |-> h]>>

\* Histories with a null entry: alone, or after a tick.
NullHistories ==
    {<<NullItem, t>> : t \in TickPool} \cup {<<t, NullItem, t>> : t \in TickPool}

DataFiles ==
    {NoFile, Garbled}
    \cup {FileOf(h, o) : h \in Histories \ {<<>>}, o \in LoadedOhlc}
    \cup {FileOf(h, o) : h \in NullHistories, o \in LoadedOhlc}
    \cup {FileOf(<<>>, emptyOhlc)}

InitLoad ==
    /\ clock = 90000
    /\ phase = "boot"
    /\ latestPrice = Null
    /\ lastUpdated = Null
    /\ history = <<>>
    /\ ohlc = emptyOhlc
    /\ disk \in DataFiles
    /\ writes = <<>>
    /\ pending = 0
    /\ fired = 0
    /\ restarts = 0
    /\ ingested = <<>>
    /\ lastOp = "start"
    /\ req = NoRequest
    /\ resp = NoResponse

NextLoad ==
    \/ BootCreate
    \/ BootLoad
    \/ BootReadFail
    \/ BootLoadThrows

SpecLoad == InitLoad /\ [][NextLoad]_vars

\* C19: when the load fails, because the read fails or because processing
\* the loaded data raises an error, the engine goes on from the default
\* state: no latestPrice, no lastUpdated, no tick and no candle.
C19_LoadFailureDefaults ==
    lastOp = "loadFailed" =>
        /\ latestPrice = Null
        /\ lastUpdated = Null
        /\ history = <<>>
        /\ ohlc = emptyOhlc


\* C22: in every state in which a request can be served, a series is empty
\* only if the history is empty, so that the raw-sample fallback taken for
\* an empty series finds no tick and returns no data point.
C22_SeriesWhereHistory ==
    (Listening /\ ~InCallback) =>
        \A tf \in Intervals :
            ohlc[tf] = <<>> =>
                /\ history = <<>>
                /\ getIntervalPrices(history, clock, LegacyMinutes(tf),
                                     DefaultLimit) = <<>>

====
